---- MODULE Spec2Model ----
(***************************************************************************)
(* Model of the KakaoTalk transcript parser (src/services/chatParser.ts). *)
(*                                                                         *)
(* A JavaScript string is a sequence of characters.  A character is a      *)
(* one-element TLA+ string; the Hangul characters of the grammar are       *)
(* written in romanised form ("nyeon" is U+B144, "wol" U+C6D4, "il"        *)
(* U+C77C, "oh" U+C624, "jeon" U+C804, "hu" U+D6C4, "yo" U+C694, ...).      *)
(***************************************************************************)
EXTENDS Integers, Sequences, FiniteSets, TLC

(***************************************************************************)
(* Characters and JavaScript string primitives                             *)
(***************************************************************************)
Digits == <<"0", "1", "2", "3", "4", "5", "6", "7", "8", "9">>

IsDigit(c) == \E k \in 1..Len(Digits) : Digits[k] = c

DigitValue(c) == (CHOOSE k \in 1..Len(Digits) : Digits[k] = c) - 1

\* String.prototype.trim strips white space and line terminators.
WhiteSpace == {" ", "\t", "\r"}

\* The characters the regular expression atom . does not match.
LineTerminators == {"\n", "\r"}

RECURSIVE TrimStart(_)
TrimStart(s) ==
  IF s # <<>> /\ Head(s) \in WhiteSpace THEN TrimStart(Tail(s)) ELSE s

RECURSIVE TrimEnd(_)
TrimEnd(s) ==
  IF s # <<>> /\ s[Len(s)] \in WhiteSpace
    THEN TrimEnd(SubSeq(s, 1, Len(s) - 1))
    ELSE s

trim(s) == TrimEnd(TrimStart(s))

\* parseInt of a string of decimal digits.
RECURSIVE parseInt(_)
parseInt(s) ==
  IF s = <<>> THEN 0
  ELSE 10 * parseInt(SubSeq(s, 1, Len(s) - 1)) + DigitValue(s[Len(s)])

(***************************************************************************)
(* Regular expressions.  A matcher takes the string and the position the   *)
(* match starts at and gives the position after the match, or 0 when the   *)
(* pattern does not match there.                                           *)
(***************************************************************************)
NoMatch == 0

\* A literal piece of a pattern.
Lit(s, i, lit) ==
  IF i # NoMatch /\ i + Len(lit) - 1 <= Len(s) /\ SubSeq(s, i, i + Len(lit) - 1) = lit
    THEN i + Len(lit)
    ELSE NoMatch

\* \d{n}
DigN(s, i, n) ==
  IF i # NoMatch /\ i + n - 1 <= Len(s) /\ \A k \in i..(i + n - 1) : IsDigit(s[k])
    THEN i + n
    ELSE NoMatch

\* \d{1,2}, greedy.  Every use is followed by a literal that is no digit, so
\* the shorter alternative can only succeed when the longer one is not there.
Dig12(s, i) ==
  IF DigN(s, i, 2) # NoMatch THEN DigN(s, i, 2) ELSE DigN(s, i, 1)

\* (?:ojeon|ohu), written oh-jeon and oh-hu.
AmPm(s, i) ==
  IF Lit(s, i, <<"oh", "jeon">>) # NoMatch
    THEN Lit(s, i, <<"oh", "jeon">>)
    ELSE Lit(s, i, <<"oh", "hu">>)

\* \d{4}nyeon \d{1,2}wol \d{1,2}il
DatePattern(s, i) ==
  Lit(s, Dig12(s, Lit(s, Dig12(s, Lit(s, DigN(s, i, 4), <<"nyeon", " ">>)),
                      <<"wol", " ">>)), <<"il">>)

\* \d{4}nyeon \d{1,2}wol \d{1,2}il (?:ojeon|ohu) \d{1,2}:\d{2}
TimestampPattern(s, i) ==
  DigN(s, Lit(s, Dig12(s, Lit(s, AmPm(s, Lit(s, DatePattern(s, i), <<" ">>)),
                              <<" ">>)), <<":">>), 2)

\* The index of the leftmost match of the unanchored date pattern in s, or
\* NoMatch.
SearchDate(s) ==
  IF \E i \in 1..Len(s) : DatePattern(s, i) # NoMatch
    THEN CHOOSE i \in 1..Len(s) :
           /\ DatePattern(s, i) # NoMatch
           /\ \A j \in 1..(i - 1) : DatePattern(s, j) = NoMatch
    ELSE NoMatch

(***************************************************************************)
(* new Date(year, monthIndex, day) and Date.prototype.getDay               *)
(***************************************************************************)
\* Days from 1970-01-01 to the civil date y-m-d, m in 1..12 (proleptic
\* Gregorian calendar, as ECMAScript's MakeDay computes it).
DaysFromCivil(y, m, d) ==
  LET yy  == IF m <= 2 THEN y - 1 ELSE y
      era == yy \div 400
      yoe == yy - era * 400
      mp  == IF m > 2 THEN m - 3 ELSE m + 9
      doy == (153 * mp + 2) \div 5 + d - 1
      doe == yoe * 365 + yoe \div 4 - yoe \div 100 + doy
  IN  era * 146097 + doe - 719468

\* The day number of new Date(year, monthIndex, day): a year of 0..99 means
\* 1900 + year, and an out-of-range month or day carries over.
DateDay(year, monthIndex, day) ==
  LET yr == IF year >= 0 /\ year <= 99 THEN 1900 + year ELSE year
      ym == yr + monthIndex \div 12
      mn == monthIndex % 12
  IN  DaysFromCivil(ym, mn + 1, 1) + day - 1

\* TimeClip: the largest day number a Date can hold.
MaxDateDay == 100000000

\* isNaN(date.getTime())
DateIsNaN(dayNumber) == dayNumber > MaxDateDay \/ dayNumber < -MaxDateDay

\* getDay: 0 is Sunday; 1970-01-01 was a Thursday.
getDay(dayNumber) == (dayNumber + 4) % 7

(***************************************************************************)
(* chatParser.ts helpers                                                   *)
(***************************************************************************)
\* il, wol, hwa, su, mok, geum, to: Sunday .. Saturday.
KOREAN_DAYS == <<"il", "wol", "hwa", "su", "mok", "geum", "to">>

\* The capture groups of /(\d{4})nyeon (\d{1,2})wol (\d{1,2})il/ matched at i.
DateGroups(s, i) ==
  LET yEnd   == DigN(s, i, 4)
      mStart == Lit(s, yEnd, <<"nyeon", " ">>)
      mEnd   == Dig12(s, mStart)
      dStart == Lit(s, mEnd, <<"wol", " ">>)
      dEnd   == Dig12(s, dStart)
  IN  [year  |-> SubSeq(s, i, yEnd - 1),
       month |-> SubSeq(s, mStart, mEnd - 1),
       day   |-> SubSeq(s, dStart, dEnd - 1)]

formatDateWithDay(dateStr) ==
  LET at == SearchDate(dateStr)
  IN  IF at = NoMatch THEN dateStr
      ELSE LET g    == DateGroups(dateStr, at)
               date == DateDay(parseInt(g.year), parseInt(g.month) - 1, parseInt(g.day))
           IN  IF DateIsNaN(date) THEN dateStr
               ELSE dateStr \o <<" ", KOREAN_DAYS[getDay(date) + 1], "yo", "il">>

\* /(ojeon|ohu)\s(\d{1,2}:\d{2})/
DisplayTimePattern(s, i) ==
  LET a == AmPm(s, i)
      w == IF a # NoMatch /\ a <= Len(s) /\ s[a] \in WhiteSpace \cup {"\n"}
             THEN a + 1 ELSE NoMatch
  IN  DigN(s, Lit(s, Dig12(s, w), <<":">>), 2)

\* The index of the leftmost match of DisplayTimePattern in s, or NoMatch.
SearchDisplayTime(s) ==
  IF \E i \in 1..Len(s) : DisplayTimePattern(s, i) # NoMatch
    THEN CHOOSE i \in 1..Len(s) :
           /\ DisplayTimePattern(s, i) # NoMatch
           /\ \A j \in 1..(i - 1) : DisplayTimePattern(s, j) = NoMatch
    ELSE NoMatch

\* parseTimestampToDisplayTime returning match[2] alone, the H:MM part.
parseTimestampWithoutAmPm(timestampString) ==
  LET at == SearchDisplayTime(timestampString)
  IN  IF at = NoMatch THEN <<>>
      ELSE SubSeq(timestampString, AmPm(timestampString, at) + 1,
                  DisplayTimePattern(timestampString, at) - 1)

parseTimestampToDisplayTime(timestampString) ==
  LET at == SearchDisplayTime(timestampString)
  IN  IF at = NoMatch THEN <<>>
      ELSE LET a == AmPm(timestampString, at)
           IN  SubSeq(timestampString, at, a - 1) \o <<" ">>
                 \o SubSeq(timestampString, a + 1,
                           DisplayTimePattern(timestampString, at) - 1)

(***************************************************************************)
(* parseChat, first variant (chatParser.ts lines 20-108)                   *)
(*                                                                         *)
(* The state of one run is the record st:                                  *)
(*   messages     the item list                                            *)
(*   users        the Set of speakers, in insertion order                  *)
(*   lastMessage  a reference to an item of messages (its index), or       *)
(*                NullRef for null                                         *)
(*   lastDate     <<>> for null, <<d>> for the string d                    *)
(*   threw        TRUE once a statement has thrown                         *)
(***************************************************************************)
NullRef == 0

\* The deleted-message sentinel, 13 characters.
DELETED ==
  <<"me", "si", "ji", "ga", " ", "sak", "je", "doe", "eot", "seup", "ni", "da", ".">>

\* The title used when lines[0] is empty, 7 characters.
DefaultTitle == <<"ka", "ka", "oh", "tok", " ", "dae", "hwa">>

\* dateSeparatorRegex: ^(timestamp)$
dateSeparatorRegex(line) ==
  line # <<>> /\ TimestampPattern(line, 1) = Len(line) + 1

\* The length of the shortest non-empty speaker (.+?) starting at p that is
\* followed by " : ", or 0 if there is none or it would hold a line terminator.
SpeakerLength(line, p) ==
  LET Ok(k) == Lit(line, p + k, <<" ", ":", " ">>) # NoMatch
  IN  IF p = NoMatch \/ ~ \E k \in 1..Len(line) : Ok(k) THEN 0
      ELSE LET k == CHOOSE k \in 1..Len(line) : Ok(k) /\ \A j \in 1..(k - 1) : ~ Ok(j)
           IN  IF \E j \in p..(p + k - 1) : line[j] \in LineTerminators THEN 0 ELSE k

\* messageRegex: ^(timestamp), (.+?) : ([\s\S]*)
messageRegex(line) ==
  SpeakerLength(line, Lit(line, TimestampPattern(line, 1), <<",", " ">>)) # 0

\* [_, fullTimestamp, userName, content] of a line messageRegex matches.
MessageGroups(line) ==
  LET tsEnd == TimestampPattern(line, 1)
      p     == Lit(line, tsEnd, <<",", " ">>)
      k     == SpeakerLength(line, p)
  IN  [fullTimestamp |-> SubSeq(line, 1, tsEnd - 1),
       userName      |-> SubSeq(line, p, p + k - 1),
       content       |-> SubSeq(line, p + k + 3, Len(line))]

\* The text of the leftmost date in s: s.match(/(date)/)[1].
DatePart(s) ==
  LET at == SearchDate(s)
  IN  SubSeq(s, at, DatePattern(s, at) - 1)

\* The values the loop body computes from the line alone, under the names of
\* its locals (a local the line leaves undefined is <<>> or FALSE):
\*   lines 47-52   dateMatch, fullDateStr, datePartMatch, formattedDate
\*   lines 66-74   messageMatch, fullTimestamp, userName, content, messageDate,
\*                 with formatDateWithDay(messageDate) as messageDateFormatted
\*   line 83       timestamp
\*   line 157      formattedDate2, the second variant's formattedDate
Locals(line) ==
  LET dateMatch    == dateSeparatorRegex(line)
      messageMatch == messageRegex(line)
      g            == MessageGroups(line)
      messageDate  == IF messageMatch /\ DatePattern(g.fullTimestamp, 1) # NoMatch
                        THEN SubSeq(g.fullTimestamp, 1, DatePattern(g.fullTimestamp, 1) - 1)
                        ELSE <<>>
  IN  [line           |-> line,
       dateMatch      |-> dateMatch,
       fullDateStr    |-> IF dateMatch THEN line ELSE <<>>,
       datePartMatch  |-> dateMatch /\ SearchDate(line) # NoMatch,
       formattedDate  |-> IF dateMatch /\ SearchDate(line) # NoMatch
                            THEN formatDateWithDay(DatePart(line)) ELSE <<>>,
       formattedDate2 |-> IF dateMatch
                            THEN formatDateWithDay(SubSeq(line, 1, DatePattern(line, 1) - 1))
                            ELSE <<>>,
       messageMatch   |-> messageMatch,
       fullTimestamp  |-> IF messageMatch THEN g.fullTimestamp ELSE <<>>,
       userName       |-> IF messageMatch THEN g.userName ELSE <<>>,
       content        |-> IF messageMatch THEN g.content ELSE <<>>,
       messageDate    |-> messageDate,
       messageDateFormatted |->
         IF messageDate # <<>> THEN formatDateWithDay(messageDate) ELSE <<>>,
       timestamp      |-> IF messageMatch THEN parseTimestampToDisplayTime(g.fullTimestamp)
                                         ELSE <<>>]

\* SetAdd, adding the name even when the set holds it.
SetAddAlways(users, name) == Append(users, name)

\* users.add(name)
SetAdd(users, name) ==
  IF \E k \in 1..Len(users) : users[k] = name THEN users ELSE Append(users, name)

\* DeletionBranch without line 43.
DeletionBranchKeepsTracker(st) ==
  [st EXCEPT !.messages = Append(@, [type |-> "system", content |-> DELETED])]

\* Lines 37-45: the deletion marker.
DeletionBranch(st) ==
  [st EXCEPT !.messages = Append(@, [type |-> "system", content |-> DELETED]),
             !.lastMessage = NullRef]

\* DateHeaderBranch without the comparison with lastDate.
DateHeaderBranchAlways(st, m) ==
  IF m.datePartMatch
    THEN [st EXCEPT !.messages = Append(@, [type |-> "date", date |-> m.fullDateStr]),
                    !.lastDate = <<m.formattedDate>>,
                    !.lastMessage = NullRef]
    ELSE st

\* DateHeaderBranch skipping every date a DateMarker was pushed for already.
DateHeaderBranchOncePerDate(st, m) ==
  IF /\ m.datePartMatch
     /\ <<m.formattedDate>> # st.lastDate
     /\ \A i \in 1..Len(st.messages) : st.messages[i] # [type |-> "date", date |-> m.fullDateStr]
    THEN [st EXCEPT !.messages = Append(@, [type |-> "date", date |-> m.fullDateStr]),
                    !.lastDate = <<m.formattedDate>>,
                    !.lastMessage = NullRef]
    ELSE st

\* DateHeaderBranch without the reset of line 60.
DateHeaderBranchKeepsTracker(st, m) ==
  IF m.datePartMatch /\ <<m.formattedDate>> # st.lastDate
    THEN [st EXCEPT !.messages = Append(@, [type |-> "date", date |-> m.fullDateStr]),
                    !.lastDate = <<m.formattedDate>>]
    ELSE st

\* Lines 48-64: the date-only header; m is Locals(line).
DateHeaderBranch(st, m) ==
  IF m.datePartMatch /\ <<m.formattedDate>> # st.lastDate
    THEN [st EXCEPT !.messages = Append(@, [type |-> "date", date |-> m.fullDateStr]),
                    !.lastDate = <<m.formattedDate>>,
                    !.lastMessage = NullRef]
    ELSE st

\* MessageDateMarker without the comparison with lastDate.
MessageDateMarkerAlways(st, m) ==
  IF m.messageDate # <<>>
    THEN [st EXCEPT !.lastDate = <<m.messageDateFormatted>>,
                    !.messages = Append(@, [type |-> "date", date |-> m.fullTimestamp])]
    ELSE st

\* MessageDateMarker emptying the tracker as the date-only header does.
MessageDateMarkerResets(st, m) ==
  IF m.messageDate # <<>> /\ <<m.messageDateFormatted>> # st.lastDate
    THEN [st EXCEPT !.lastDate = <<m.messageDateFormatted>>,
                    !.messages = Append(@, [type |-> "date", date |-> m.fullTimestamp]),
                    !.lastMessage = NullRef]
    ELSE st

\* MessageDateMarker without the assignment of line 75.
MessageDateMarkerForgetsDate(st, m) ==
  IF m.messageDate # <<>> /\ <<m.messageDateFormatted>> # st.lastDate
    THEN [st EXCEPT !.messages = Append(@, [type |-> "date", date |-> m.fullTimestamp])]
    ELSE st

\* MessageDateMarker leaving the DateMarkers to the date-only headers.
MessageDateMarkerNever(st, m) == st

\* Lines 71-81: the date marker a message line emits.
MessageDateMarker(st, m) ==
  IF m.messageDate # <<>> /\ <<m.messageDateFormatted>> # st.lastDate
    THEN [st EXCEPT !.lastDate = <<m.messageDateFormatted>>,
                    !.messages = Append(@, [type |-> "date", date |-> m.fullTimestamp])]
    ELSE st

\* IsContinuation comparing with the Message being pushed, which is not in
\* the list yet.
IsContinuationNever(st, user, timestamp) ==
  /\ st.lastMessage > Len(st.messages)
  /\ st.messages[st.lastMessage].user = user

\* Lines 84-87: lastMessage?.type === 'message' && same user && same timestamp.
IsContinuation(st, user, timestamp) ==
  /\ st.lastMessage # NullRef
  /\ st.messages[st.lastMessage].type = "message"
  /\ st.messages[st.lastMessage].user = user
  /\ st.messages[st.lastMessage].timestamp = timestamp

\* Lines 83-101: the Message of a message line.
PushMessage(st, m) ==
  LET newMessage == [type           |-> "message",
                     user           |-> trim(m.userName),
                     content        |-> trim(m.content),
                     timestamp      |-> m.timestamp,
                     fullTimestamp  |-> m.fullTimestamp,
                     isContinuation |-> IsContinuation(st, trim(m.userName), m.timestamp)]
  IN  [st EXCEPT !.messages = Append(@, newMessage),
                 !.users = SetAdd(@, trim(m.userName)),
                 !.lastMessage = Len(st.messages) + 1]

\* MessageBranch pushing the date marker behind the Message.
MessageBranchMarkerLast(st, m) ==
  LET pushed == PushMessage(st, m)
      marked == MessageDateMarker(pushed, m)
  IN  [marked EXCEPT !.lastMessage = pushed.lastMessage]

\* Lines 67-101.
MessageBranch(st, m) == PushMessage(MessageDateMarker(st, m), m)

\* AppendToLastMessage without the newline.
AppendWithoutNewline(st, line) ==
  IF st.lastMessage = NullRef THEN [st EXCEPT !.threw = TRUE]
  ELSE [st EXCEPT !.messages[st.lastMessage].content = @ \o line]

\* Line 103: lastMessage.content += '\n' + line; a TypeError when lastMessage
\* is null.
AppendToLastMessage(st, line) ==
  IF st.lastMessage = NullRef THEN [st EXCEPT !.threw = TRUE]
  ELSE [st EXCEPT !.messages[st.lastMessage].content = @ \o <<"\n">> \o line]

\* ContinuationFallback without the test of lastMessage.
ContinuationFallbackUnguarded(st, line) == AppendToLastMessage(st, line)

\* ContinuationFallback keeping the line it cannot append as an item of its own.
ContinuationFallbackKeepsLine(st, line) ==
  IF st.lastMessage # NullRef /\ st.messages[st.lastMessage].type = "message"
    THEN AppendToLastMessage(st, line)
    ELSE [st EXCEPT !.messages = Append(@, [type |-> "system", content |-> line])]

\* Lines 102-104.
ContinuationFallback(st, line) ==
  IF st.lastMessage # NullRef /\ st.messages[st.lastMessage].type = "message"
    THEN AppendToLastMessage(st, line)
    ELSE st

\* LoopBody without the test of line 35: an empty line goes the way of any
\* other.
LoopBodyKeepsBlank(st, m) ==
  IF m.line = DELETED THEN DeletionBranch(st)
  ELSE IF m.dateMatch THEN DateHeaderBranch(st, m)
  ELSE IF m.messageMatch THEN MessageBranch(st, m)
  ELSE ContinuationFallback(st, m.line)

\* Lines 34-105: the body of the loop, for one trimmed line behind the header;
\* m is Locals(line).
LoopBody(st, m) ==
  IF m.line = <<>> THEN st
  ELSE IF m.line = DELETED THEN DeletionBranch(st)
  ELSE IF m.dateMatch THEN DateHeaderBranch(st, m)
  ELSE IF m.messageMatch THEN MessageBranch(st, m)
  ELSE ContinuationFallback(st, m.line)

\* Lines 24-32: the state the loop starts in.
EmptyRun ==
  [messages |-> <<>>, users |-> <<>>, lastMessage |-> NullRef, lastDate |-> <<>>,
   threw |-> FALSE]

(***************************************************************************)
(* parseChat, second variant (chatParser.ts lines 128-208).  It differs    *)
(* from the first in the payload of the date items and has no              *)
(* fullTimestamp field; lines 145-153 and 202-204 are the first variant's  *)
(* DeletionBranch and ContinuationFallback.                                *)
(***************************************************************************)
\* DateHeaderBranch2 without the reset of line 165.
DateHeaderBranch2KeepsTracker(st, m) ==
  IF <<m.formattedDate2>> # st.lastDate
    THEN [st EXCEPT !.messages = Append(@, [type |-> "date", date |-> m.formattedDate2]),
                    !.lastDate = <<m.formattedDate2>>]
    ELSE st

\* Lines 156-168; dateSeparatorRegex captures the date alone here.
DateHeaderBranch2(st, m) ==
  IF <<m.formattedDate2>> # st.lastDate
    THEN [st EXCEPT !.messages = Append(@, [type |-> "date", date |-> m.formattedDate2]),
                    !.lastDate = <<m.formattedDate2>>,
                    !.lastMessage = NullRef]
    ELSE st

\* Lines 173-182.
MessageDateMarker2(st, m) ==
  IF m.messageDate # <<>> /\ <<m.messageDateFormatted>> # st.lastDate
    THEN [st EXCEPT !.lastDate = <<m.messageDateFormatted>>,
                    !.messages = Append(@, [type |-> "date", date |-> m.messageDateFormatted])]
    ELSE st

\* Lines 184-201.
PushMessage2(st, m) ==
  LET newMessage == [type           |-> "message",
                     user           |-> trim(m.userName),
                     content        |-> trim(m.content),
                     timestamp      |-> m.timestamp,
                     isContinuation |-> IsContinuation(st, trim(m.userName), m.timestamp)]
  IN  [st EXCEPT !.messages = Append(@, newMessage),
                 !.users = SetAdd(@, trim(m.userName)),
                 !.lastMessage = Len(st.messages) + 1]

\* Lines 171-201.
MessageBranch2(st, m) == PushMessage2(MessageDateMarker2(st, m), m)

\* Lines 142-205.
LoopBody2(st, m) ==
  IF m.line = <<>> THEN st
  ELSE IF m.line = DELETED THEN DeletionBranch(st)
  ELSE IF m.dateMatch THEN DateHeaderBranch2(st, m)
  ELSE IF m.messageMatch THEN MessageBranch2(st, m)
  ELSE ContinuationFallback(st, m.line)

(***************************************************************************)
(* The input.  txtContent.split('\n') is a sequence of lines; a line is    *)
(* described by what it was written as (its kind and its parts) and        *)
(* carries its text, raw.  The parser sees raw only.                       *)
(***************************************************************************)
DateText(y, m, d) == y \o <<"nyeon", " ">> \o m \o <<"wol", " ">> \o d \o <<"il">>

TimeText(half, h, mi) == <<"oh", half, " ">> \o h \o <<":">> \o mi

\* A date as written: its text, the calendar date it stands for and the
\* weekday of that date, looked up in a calendar.
NoDate == [text |-> <<>>, ymd |-> <<0, 0, 0>>, weekday |-> ""]

BlankLine(raw) ==
  [kind |-> "blank", date |-> NoDate, time |-> <<>>, speaker |-> <<>>, body |-> <<>>,
   raw |-> raw]

DeletedLine(left, right) ==
  [kind |-> "deleted", date |-> NoDate, time |-> <<>>, speaker |-> <<>>, body |-> DELETED,
   raw |-> left \o DELETED \o right]

HeaderLine(date, time) ==
  [kind |-> "header", date |-> date, time |-> time, speaker |-> <<>>, body |-> <<>>,
   raw |-> date.text \o <<" ">> \o time]

\* speaker and body are written without white space around them; left and
\* right are the white space around the speaker, tail the one ending the line.
MessageLine(date, time, left, speaker, right, body, tail) ==
  [kind |-> "message", date |-> date, time |-> time, speaker |-> speaker, body |-> body,
   raw |-> date.text \o <<" ">> \o time \o <<",", " ">> \o left \o speaker \o right
             \o <<" ", ":", " ">> \o body \o tail]

\* A line of text that matches none of the rules; body is the text without
\* the white space around it.
TextLine(left, body, right) ==
  [kind |-> "text", date |-> NoDate, time |-> <<>>, speaker |-> <<>>, body |-> body,
   raw |-> left \o body \o right]

\* 1 January 2024 was a Monday (wol), 2 January 2024 a Tuesday (hwa).
Jan1 ==
  [text |-> DateText(<<"2", "0", "2", "4">>, <<"1">>, <<"1">>), ymd |-> <<2024, 1, 1>>,
   weekday |-> "wol"]

Jan1Padded ==
  [text |-> DateText(<<"2", "0", "2", "4">>, <<"0", "1">>, <<"0", "1">>), ymd |-> <<2024, 1, 1>>,
   weekday |-> "wol"]

Jan2 ==
  [text |-> DateText(<<"2", "0", "2", "4">>, <<"1">>, <<"2">>), ymd |-> <<2024, 1, 2>>,
   weekday |-> "hwa"]

Morning == TimeText("jeon", <<"9">>, <<"0", "0">>)

Evening == TimeText("hu", <<"9">>, <<"0", "0">>)

\* Date texts that match the pattern and name no day of the calendar: month
\* 13, month 0, day 0, day 32.
Month13 ==
  [text |-> DateText(<<"2", "0", "2", "4">>, <<"1", "3">>, <<"1">>), ymd |-> <<2024, 13, 1>>,
   weekday |-> ""]

Month0 ==
  [text |-> DateText(<<"2", "0", "2", "4">>, <<"0">>, <<"1">>), ymd |-> <<2024, 0, 1>>,
   weekday |-> ""]

Day0 ==
  [text |-> DateText(<<"2", "0", "2", "4">>, <<"1">>, <<"0">>), ymd |-> <<2024, 1, 0>>,
   weekday |-> ""]

Day32 ==
  [text |-> DateText(<<"2", "0", "2", "4">>, <<"1">>, <<"3", "2">>), ymd |-> <<2024, 1, 32>>,
   weekday |-> ""]

\* The lines a transcript body is made of.
LineCatalogue ==
  { BlankLine(<<" ">>),
    DeletedLine(<<>>, <<"\r">>),
    HeaderLine(Jan1, Morning),
    HeaderLine(Jan1Padded, Morning),
    HeaderLine(Jan2, Evening),
    MessageLine(Jan1, Morning, <<>>, <<"A">>, <<>>, <<"h", "i">>, <<>>),
    MessageLine(Jan1, Morning, <<" ">>, <<"B">>, <<" ">>, <<"a", " ", ":", " ", "b">>, <<"\r">>),
    MessageLine(Jan2, Morning, <<" ">>, <<"A">>, <<>>, <<"h", "i">>, <<>>),
    MessageLine(Jan1Padded, Evening, <<>>, <<"A">>, <<>>, <<"y", "o">>, <<" ">>),
    TextLine(<<" ">>, <<"o", "k">>, <<>>),
    TextLine(<<>>, <<"2", "0", "2", "4", "nyeon">>, <<"\t">>) }

\* The three lines of a well-formed header: title, save date, blank.
TitleLine == TextLine(<<>>, <<"T">>, <<"\r">>)

SavedLine == TextLine(<<>>, <<"s", "a", "v", "e", "d", " ", ":", " ", "1">>, <<>>)

Header == <<TitleLine, SavedLine, BlankLine(<<>>)>>

\* The lines the first three lines of an input are drawn from.
HeaderCatalogue ==
  { BlankLine(<<>>), TitleLine, SavedLine, DeletedLine(<<>>, <<>>),
    MessageLine(Jan1, Morning, <<>>, <<"A">>, <<>>, <<"h", "i">>, <<>>) }

\* The body of a one-day conversation: a date header, two messages of A in
\* the same minute, a deleted message, a message of B.
Scenario ==
  << HeaderLine(Jan1, Morning),
     MessageLine(Jan1, Morning, <<>>, <<"A">>, <<>>, <<"h", "e", "l", "l", "o">>, <<>>),
     MessageLine(Jan1, Morning, <<>>, <<"A">>, <<>>, <<"w", "o", "r", "l", "d">>, <<>>),
     DeletedLine(<<>>, <<>>),
     MessageLine(Jan1, Morning, <<>>, <<"B">>, <<>>, <<"h", "i">>, <<>>) >>

ScenarioCatalogue == {Scenario[i] : i \in 1..Len(Scenario)}

\* Lines whose date text names no day of the calendar, next to one that does.
DateCatalogue ==
  { HeaderLine(Month13, Morning),
    HeaderLine(Month0, Morning),
    HeaderLine(Day0, Evening),
    HeaderLine(Day32, Morning),
    HeaderLine(Jan1, Morning),
    MessageLine(Month13, Morning, <<>>, <<"A">>, <<>>, <<"h", "i">>, <<>>) }

\* The lines two invocations running side by side are given.
PairCatalogue ==
  { HeaderLine(Jan1, Morning),
    MessageLine(Jan1, Morning, <<>>, <<"A">>, <<>>, <<"h", "i">>, <<>>),
    TextLine(<<" ">>, <<"o", "k">>, <<>>),
    DeletedLine(<<>>, <<"\r">>) }

\* Empty lines and lines of white space, next to the lines they may stand
\* between.
BlankCatalogue ==
  { BlankLine(<<>>),
    BlankLine(<<" ">>),
    BlankLine(<<"\t", "\r">>),
    HeaderLine(Jan1, Morning),
    MessageLine(Jan1, Morning, <<>>, <<"A">>, <<>>, <<"h", "i">>, <<>>),
    TextLine(<<" ">>, <<"o", "k">>, <<>>) }

\* Message lines by what stands behind " : ": nothing, white space, text
\* with a further " : ", plain text; next to a header and a text line.
ContentCatalogue ==
  { MessageLine(Jan1, Morning, <<>>, <<"A">>, <<>>, <<>>, <<>>),
    MessageLine(Jan1, Morning, <<>>, <<"B">>, <<>>, <<>>, <<" ", " ">>),
    MessageLine(Jan1, Morning, <<" ">>, <<"B">>, <<" ">>, <<"a", " ", ":", " ", "b">>, <<"\r">>),
    MessageLine(Jan1, Morning, <<>>, <<"A">>, <<>>, <<"h", "i">>, <<>>),
    HeaderLine(Jan1, Morning),
    TextLine(<<" ">>, <<"o", "k">>, <<>>) }

\* The key whose assignment sets the prototype of a plain object.
ProtoKey == <<"_", "_", "p", "r", "o", "t", "o", "_", "_">>

\* The lines of an upload: three speakers, one of them named after the
\* prototype key and one whose name is white space, and a notice.
AppCatalogue ==
  { MessageLine(Jan1, Morning, <<>>, <<"A">>, <<>>, <<"h", "i">>, <<>>),
    MessageLine(Jan1, Morning, <<>>, ProtoKey, <<>>, <<"y", "o">>, <<>>),
    MessageLine(Jan1, Morning, <<" ">>, <<>>, <<>>, <<"o", "k">>, <<>>),
    DeletedLine(<<>>, <<>>) }

\* The lines behind the header of an upload.
MaxAppLines == 2

AllLines ==
  LineCatalogue \cup HeaderCatalogue \cup ScenarioCatalogue \cup DateCatalogue
    \cup BlankCatalogue \cup ContentCatalogue \cup AppCatalogue

\* Locals of every line of the catalogues, computed once.
LocalsOf == [in \in AllLines |-> Locals(trim(in.raw))]

\* lines[0] of every line of the catalogues.
TrimmedOf == [in \in AllLines |-> trim(in.raw)]

(***************************************************************************)
(* Bounds                                                                  *)
(***************************************************************************)
\* The lines behind the header of an input with the well-formed header.
MaxLines == 4

\* The lines behind the header of an input with any header.
MaxTail == 2

\* The lines behind the header of each of two inputs parsed side by side.
MaxPairLines == 2

\* The lines behind the header of an input whose ids are recorded.
MaxIdLines == 2

\* Two of the values Math.random() can return.
RandomValues == {0, 1}

(***************************************************************************)
(* The App component (part_001 lines 159-382) that shows what parseChat    *)
(* returned.  An object used as a map is its own properties and its        *)
(* prototype; <<>> stands for null, for undefined and for Object.prototype *)
(* as the prototype.                                                       *)
(***************************************************************************)
\* Line 6.
AVATAR_COLORS ==
  <<"bg-red-500", "bg-green-500", "bg-blue-500", "bg-indigo-500", "bg-purple-500",
    "bg-pink-500">>

\* {} of lines 161 and 306.
EmptyObject == [own |-> <<>>, proto |-> <<>>]

\* obj[key] = value of line 308, value being an object.
SetProperty(obj, key, value) ==
  IF key = ProtoKey THEN [obj EXCEPT !.proto = <<value>>]
  ELSE [obj EXCEPT !.own = (key :> value) @@ @]

\* The prototype of a plain object.
ObjectPrototype == [constructor |-> "Object"]

\* users[item.user] of line 365, <<>> for undefined.  The members a key inherits from the
\* prototype are left out: the keys read are speakers, each of them set.
GetProperty(obj, key) ==
  IF key \in DOMAIN obj.own THEN <<obj.own[key]>>
  ELSE IF key = ProtoKey
         THEN (IF obj.proto = <<>> THEN <<ObjectPrototype>> ELSE obj.proto)
         ELSE <<>>

\* userProfiles taking the first speaker of the list for the user.
RECURSIVE userProfilesFirstIsMe(_, _, _)
userProfilesFirstIsMe(parsedUsers, selectedName, n) ==
  IF n = 0 THEN EmptyObject
  ELSE SetProperty(userProfilesFirstIsMe(parsedUsers, selectedName, n - 1), parsedUsers[n],
                   [name |-> parsedUsers[n],
                    isMe |-> n = 1,
                    avatarColor |-> AVATAR_COLORS[((n - 1) % Len(AVATAR_COLORS)) + 1]])

\* Lines 306-314: the forEach over the first n parsed speakers.
RECURSIVE userProfiles(_, _, _)
userProfiles(parsedUsers, selectedName, n) ==
  IF n = 0 THEN EmptyObject
  ELSE SetProperty(userProfiles(parsedUsers, selectedName, n - 1), parsedUsers[n],
                   [name |-> parsedUsers[n],
                    isMe |-> parsedUsers[n] = selectedName,
                    avatarColor |-> AVATAR_COLORS[((n - 1) % Len(AVATAR_COLORS)) + 1]])

\* The items parseChat returned, each with the id it was given.
ItemsWithIds(msgs, idsOfMsgs) ==
  [i \in 1..Len(msgs) |-> msgs[i] @@ ("id" :> idsOfMsgs[i])]

\* The updater of handleUpdateMessage without the test of the type.
UpdatedItemsOfAnyType(prevItems, id, newContent) ==
  [i \in 1..Len(prevItems) |->
     IF prevItems[i].id = id
       THEN ("content" :> newContent) @@ prevItems[i]
       ELSE prevItems[i]]

\* Lines 327-331: prevItems.map(...), a new list with a new object for each
\* item it changes.
UpdatedItems(prevItems, id, newContent) ==
  [i \in 1..Len(prevItems) |->
     IF prevItems[i].id = id /\ prevItems[i].type = "message"
       THEN [prevItems[i] EXCEPT !.content = newContent]
       ELSE prevItems[i]]

\* Lines 160-167: the state of the component when it is mounted.
AppInit ==
  [chatItems |-> <<>>, users |-> EmptyObject, imageStore |-> {}, chatTitle |-> <<>>,
   isLoading |-> FALSE, error |-> <<>>, parsedData |-> <<>>, isSelectingUser |-> FALSE,
   called |-> <<>>]

\* The images an archive may hold.
ImageStores == {{}, {"a.png"}}

\* What the user may leave in the text area of a bubble.
EditTexts == {<<>>, <<" ", "x">>}

(***************************************************************************)
(* The state machine: a run of both variants of parseChat on one input,    *)
(* read line by line.                                                      *)
(***************************************************************************)
VARIABLES
  input,         \* the lines of txtContent read so far (descriptors)
  title,         \* lines[0] || DefaultTitle, <<>> before lines[0] is read
  messages, users, lastMessage, lastDate,       \* first variant
  messages2, users2, lastMessage2, lastDate2,   \* second variant
  pc,            \* "run", "done" (returned) or "threw"
  result,        \* the value the first variant returned
  result2,       \* the value the second variant returned
  ids,           \* the ids of the items of messages, where they are recorded
  other,         \* a second invocation of the first variant, on its own input
  app            \* the state of the App component that shows the result

vars ==
  <<input, title, messages, users, lastMessage, lastDate,
    messages2, users2, lastMessage2, lastDate2, pc, result, result2, ids, other, app>>

\* lines = txtContent.split('\n').map(line => line.trim())
lines == [i \in 1..Len(input) |-> TrimmedOf[input[i]]]

\* slice(2) for slice(3): the title and the save date, not the blank line.
HeaderSizeTwo == Len(<<TitleLine, SavedLine>>)

HeaderSize == 3

NoResult == [messages |-> <<>>, users |-> <<>>, title |-> <<>>]

State1 ==
  [messages |-> messages, users |-> users, lastMessage |-> lastMessage,
   lastDate |-> lastDate, threw |-> FALSE]

State2 ==
  [messages |-> messages2, users |-> users2, lastMessage |-> lastMessage2,
   lastDate |-> lastDate2, threw |-> FALSE]

\* lastDate kept outside the function, one for all invocations.
StateOtherSharedDate ==
  [messages |-> other.messages, users |-> other.users, lastMessage |-> other.lastMessage,
   lastDate |-> lastDate, threw |-> FALSE]

\* The speaker set kept outside the function, one for all invocations.
StateOtherSharedSpeakers ==
  [messages |-> other.messages, users |-> users, lastMessage |-> other.lastMessage,
   lastDate |-> other.lastDate, threw |-> FALSE]

\* Lines 25-32 for the second invocation: its locals are its own.
StateOther ==
  [messages |-> other.messages, users |-> other.users, lastMessage |-> other.lastMessage,
   lastDate |-> other.lastDate, threw |-> FALSE]

\* The second invocation at the start of its loop, its input having the
\* well-formed header.
OtherInit ==
  [input |-> Header, messages |-> EmptyRun.messages, users |-> EmptyRun.users,
   lastMessage |-> EmptyRun.lastMessage, lastDate |-> EmptyRun.lastDate,
   pc |-> "run", result |-> NoResult]

\* The state before the first line is read.
InitAny ==
  /\ input = <<>>
  /\ title = <<>>
  /\ messages = EmptyRun.messages /\ users = EmptyRun.users
  /\ lastMessage = EmptyRun.lastMessage /\ lastDate = EmptyRun.lastDate
  /\ messages2 = EmptyRun.messages /\ users2 = EmptyRun.users
  /\ lastMessage2 = EmptyRun.lastMessage /\ lastDate2 = EmptyRun.lastDate
  /\ pc = "run"
  /\ result = NoResult /\ result2 = NoResult
  /\ ids = <<>>
  /\ other = OtherInit
  /\ app = AppInit

\* Line 24 without the default.
TitleWithoutDefault(line0) == line0

\* Line 24.
Title(line0) == IF line0 = <<>> THEN DefaultTitle ELSE line0

\* The state at the start of the loop for an input with the well-formed header.
Init ==
  /\ input = Header
  /\ title = Title(trim(Header[1].raw))
  /\ messages = EmptyRun.messages /\ users = EmptyRun.users
  /\ lastMessage = EmptyRun.lastMessage /\ lastDate = EmptyRun.lastDate
  /\ messages2 = EmptyRun.messages /\ users2 = EmptyRun.users
  /\ lastMessage2 = EmptyRun.lastMessage /\ lastDate2 = EmptyRun.lastDate
  /\ pc = "run"
  /\ result = NoResult /\ result2 = NoResult
  /\ ids = <<>>
  /\ other = OtherInit
  /\ app = AppInit

\* Lines 23-24 and the slice(3) of line 34: one of the first three lines.
SkipHeaderLine(in) ==
  /\ pc = "run"
  /\ Len(input) < HeaderSize
  /\ input' = Append(input, in)
  /\ title' = IF input = <<>> THEN Title(TrimmedOf[in]) ELSE title
  /\ UNCHANGED <<messages, users, lastMessage, lastDate,
                 messages2, users2, lastMessage2, lastDate2, pc, result, result2, ids, other, app>>

\* The locals of the two variants become st1 and st2.
Store(st1, st2) ==
  /\ messages' = st1.messages /\ users' = st1.users
  /\ lastMessage' = st1.lastMessage /\ lastDate' = st1.lastDate
  /\ messages2' = st2.messages /\ users2' = st2.users
  /\ lastMessage2' = st2.lastMessage /\ lastDate2' = st2.lastDate
  /\ pc' = IF st1.threw \/ st2.threw THEN "threw" ELSE "run"

\* LoopTurn handling its line twice.
LoopTurnTwice(in, max) ==
  /\ pc = "run"
  /\ Len(input) >= HeaderSize
  /\ Len(input) < HeaderSize + max
  /\ input' = Append(input, in)
  /\ Store(LoopBody(LoopBody(State1, LocalsOf[in]), LocalsOf[in]),
           LoopBody2(LoopBody2(State2, LocalsOf[in]), LocalsOf[in]))
  /\ UNCHANGED <<title, result, result2>>

\* Lines 34-105 (142-205): one turn of the loop, for the next line of the
\* input; max bounds the lines behind the header.
LoopTurn(in, max) ==
  /\ pc = "run"
  /\ Len(input) >= HeaderSize
  /\ Len(input) < HeaderSize + max
  /\ input' = Append(input, in)
  /\ Store(LoopBody(State1, LocalsOf[in]), LoopBody2(State2, LocalsOf[in]))
  /\ UNCHANGED <<title, result, result2>>

\* One turn of the loop, the ids of the items it pushes left out.
ProcessLine(in, max) ==
  /\ LoopTurn(in, max)
  /\ UNCHANGED <<ids, other, app>>

\* Lines 39, 55, 76 and 90: one turn of the loop, each item it pushes given
\* Math.random() as its id.
ProcessLineIds(in, max) ==
  /\ LoopTurn(in, max)
  /\ \E new \in [1..(Len(messages') - Len(messages)) -> RandomValues] : ids' = ids \o new
  /\ UNCHANGED <<other, app>>

\* The second invocation with in read and st for its locals.
OtherStore(in, st) ==
  [other EXCEPT !.input = Append(@, in),
                !.messages = st.messages, !.users = st.users,
                !.lastMessage = st.lastMessage, !.lastDate = st.lastDate,
                !.pc = IF st.threw THEN "threw" ELSE "run"]

\* One turn of the loop of the second invocation.
OtherProcessLine(in, max) ==
  /\ other.pc = "run"
  /\ Len(other.input) < HeaderSize + max
  /\ other' = OtherStore(in, LoopBody(StateOther, LocalsOf[in]))
  /\ UNCHANGED <<input, title, messages, users, lastMessage, lastDate,
                 messages2, users2, lastMessage2, lastDate2, pc, result, result2, ids, app>>

\* Line 107 of the second invocation.
OtherReturn ==
  /\ other.pc = "run"
  /\ other' = [other EXCEPT !.pc = "done",
                            !.result = [messages |-> other.messages, users |-> other.users,
                                        title |-> Title(TrimmedOf[other.input[1]])]]
  /\ UNCHANGED <<input, title, messages, users, lastMessage, lastDate,
                 messages2, users2, lastMessage2, lastDate2, pc, result, result2, ids, app>>

\* Line 107 (207): the input has no further line.
Return ==
  /\ pc = "run"
  /\ input # <<>>
  /\ pc' = "done"
  /\ result' = [messages |-> messages, users |-> users, title |-> title]
  /\ result2' = [messages |-> messages2, users |-> users2, title |-> title]
  /\ UNCHANGED <<input, title, messages, users, lastMessage, lastDate,
                 messages2, users2, lastMessage2, lastDate2, ids, other, app>>

\* The variables of the run of parseChat.
parser ==
  <<input, title, messages, users, lastMessage, lastDate,
    messages2, users2, lastMessage2, lastDate2, pc, result, result2, ids, other>>

\* Lines 334-340: the screen the component renders.
Screen ==
  IF app.isSelectingUser /\ app.parsedData # <<>> THEN "UserSelection"
  ELSE IF Len(app.chatItems) = 0 THEN "FileUpload"
  ELSE "chat"

\* Lines 196-197 (237-238, 272-273): an upload begins.
StartUpload ==
  /\ Screen = "FileUpload"
  /\ ~app.isLoading
  /\ app' = [app EXCEPT !.isLoading = TRUE, !.error = <<>>,
                        !.called = <<[handler |-> "handleFileUpload"]>>]
  /\ UNCHANGED parser

\* Lines 207-220 and 228 (248-259 and 267, 286-288 and 298): parseChat has
\* returned and the archive held the images newImageStore.
UploadParsed(newImageStore) ==
  /\ app.isLoading
  /\ pc = "done"
  /\ app' = [app EXCEPT !.parsedData = <<[messages |-> ItemsWithIds(result.messages, ids),
                                          users |-> result.users,
                                          title |-> result.title,
                                          imageStore |-> newImageStore]>>,
                        !.isSelectingUser = TRUE,
                        !.isLoading = FALSE]
  /\ UNCHANGED parser

\* Lines 192-195 (233-236): no file, or a file that is no .zip archive.
UploadRejected ==
  /\ Screen = "FileUpload"
  /\ ~app.isLoading
  /\ app' = [app EXCEPT !.error = <<"error">>,
                        !.called = <<[handler |-> "handleFileUpload", rejected |-> TRUE]>>]
  /\ UNCHANGED parser

\* UploadFailed without the finally of lines 227-229.
UploadFailedWithoutFinally ==
  /\ app.isLoading
  /\ app' = [app EXCEPT !.error = <<"error">>, !.isSelectingUser = FALSE,
                        !.parsedData = <<>>,
                        !.called = <<[handler |-> "handleFileUpload", caught |-> TRUE]>>]
  /\ UNCHANGED parser

\* Lines 222-228 (261-267, 289-298): the archive could not be read, held no
\* .txt file, or something threw.
UploadFailed ==
  /\ app.isLoading
  /\ app' = [app EXCEPT !.error = <<"error">>, !.isSelectingUser = FALSE,
                        !.parsedData = <<>>, !.isLoading = FALSE,
                        !.called = <<[handler |-> "handleFileUpload", caught |-> TRUE]>>]
  /\ UNCHANGED parser

\* Lines 302-323, called by a button of UserSelection (lines 114-122).
handleSelectUser(selectedName) ==
  /\ Screen = "UserSelection"
  /\ \E n \in 1..Len(app.parsedData[1].users) : app.parsedData[1].users[n] = selectedName
  /\ app' = [app EXCEPT !.chatTitle = app.parsedData[1].title,
                        !.users = userProfiles(app.parsedData[1].users, selectedName,
                                               Len(app.parsedData[1].users)),
                        !.imageStore = app.parsedData[1].imageStore,
                        !.chatItems = app.parsedData[1].messages,
                        !.isSelectingUser = FALSE,
                        !.parsedData = <<>>,
                        !.called = <<[handler |-> "handleSelectUser",
                                      selectedName |-> selectedName]>>]
  /\ UNCHANGED parser

\* Lines 326-332.
handleUpdateMessage(id, newContent) ==
  /\ app' = [app EXCEPT !.chatItems = UpdatedItems(@, id, newContent),
                        !.called = <<[handler |-> "handleUpdateMessage", id |-> id,
                                      newContent |-> newContent]>>]
  /\ UNCHANGED parser

\* ChatBubble.tsx lines 27-32, for the bubble of item i (part_001 lines
\* 364-371: a Message whose speaker has a profile) with editText typed in.
handleSave(i, editText) ==
  /\ Screen = "chat"
  /\ i \in 1..Len(app.chatItems)
  /\ app.chatItems[i].type = "message"
  /\ GetProperty(app.users, app.chatItems[i].user) # <<>>
  /\ trim(editText) # app.chatItems[i].content
  /\ handleUpdateMessage(app.chatItems[i].id, trim(editText))

\* Lines 176-183, called by the header of the chat (line 350).
handleGoBack ==
  /\ Screen = "chat"
  /\ app' = [app EXCEPT !.chatItems = <<>>, !.users = EmptyObject, !.imageStore = {},
                        !.chatTitle = <<>>, !.parsedData = <<>>,
                        !.isSelectingUser = FALSE,
                        !.called = <<[handler |-> "handleGoBack"]>>]
  /\ UNCHANGED parser

Next ==
  \/ \E in \in LineCatalogue : ProcessLine(in, MaxLines)
  \/ Return

\* Inputs with the well-formed header.
Spec == Init /\ [][Next]_vars

NextAny ==
  \/ \E in \in HeaderCatalogue : SkipHeaderLine(in)
  \/ \E in \in LineCatalogue : ProcessLine(in, MaxTail)
  \/ Return

\* All inputs, the empty string and those of fewer than three lines included.
SpecAny == InitAny /\ [][NextAny]_vars

NextScenario ==
  \/ \E in \in ScenarioCatalogue : ProcessLine(in, Len(Scenario))
  \/ Return

\* Inputs made of the lines of the one-day conversation, in any order.
SpecScenario == Init /\ [][NextScenario]_vars

NextDates ==
  \/ \E in \in DateCatalogue : ProcessLine(in, MaxLines)
  \/ Return

\* Inputs whose date texts name no day of the calendar.
SpecDates == Init /\ [][NextDates]_vars

NextBlank ==
  \/ \E in \in BlankCatalogue : ProcessLine(in, MaxLines)
  \/ Return

\* Inputs with empty lines and lines of white space behind the header.
SpecBlank == Init /\ [][NextBlank]_vars

NextContent ==
  \/ \E in \in ContentCatalogue : ProcessLine(in, MaxLines)
  \/ Return

\* Inputs whose message lines have every kind of content.
SpecContent == Init /\ [][NextContent]_vars

NextEnds ==
  \/ \E in \in HeaderCatalogue : SkipHeaderLine(in)
  \/ \E in \in BlankCatalogue : ProcessLine(in, MaxTail)
  \/ Return

\* All inputs, run to the end: parseChat is synchronous, so a step that can
\* be taken is taken.
SpecEnds == InitAny /\ [][NextEnds]_vars /\ WF_vars(NextEnds)

NextIds ==
  \/ \E in \in LineCatalogue : ProcessLineIds(in, MaxIdLines)
  \/ Return

\* Inputs whose items are recorded with their ids.
SpecIds == Init /\ [][NextIds]_vars

NextPair ==
  \/ \E in \in PairCatalogue : ProcessLine(in, MaxPairLines)
  \/ Return
  \/ \E in \in PairCatalogue : OtherProcessLine(in, MaxPairLines)
  \/ OtherReturn

\* Two invocations on inputs of their own, their turns interleaved in every
\* order.
SpecPair == Init /\ [][NextPair]_vars

NextApp ==
  \/ \E in \in AppCatalogue : ProcessLineIds(in, MaxAppLines)
  \/ Return
  \/ UploadRejected
  \/ StartUpload
  \/ \E newImageStore \in ImageStores : UploadParsed(newImageStore)
  \/ UploadFailed
  \/ \E selectedName \in {l.speaker : l \in AppCatalogue} : handleSelectUser(selectedName)
  \/ \E i \in 1..(2 * MaxAppLines) : \E editText \in EditTexts : handleSave(i, editText)
  \/ handleGoBack

\* An upload of a text with the well-formed header, shown and edited.
SpecApp == Init /\ [][NextApp]_vars

(***************************************************************************)
(* Vocabulary of the properties                                            *)
(***************************************************************************)
\* The index in input of the last line read, and that line.
Last == Len(input)

\* TRUE when at least one line behind the header has been processed.
InBody == Len(input) > HeaderSize

\* The index of the last non-blank line before line n behind the header, or 0.
PrevNonBlank(in, n) ==
  LET c == {j \in (HeaderSize + 1)..(n - 1) : in[j].kind # "blank"}
  IN  IF c = {} THEN 0 ELSE CHOOSE j \in c : \A k \in c : k <= j

\* The date a line of date D stands for, formatted with its weekday.
WithWeekday(date) == date.text \o <<" ", date.weekday, "yo", "il">>

\* The indices of the items of a given type.
ItemsOfType(msgs, type) == {i \in 1..Len(msgs) : msgs[i].type = type}

\* The item shapes of types.ts (the first variant adds fullTimestamp).
IsChatItem(x) ==
  \/ /\ x.type = "system"
     /\ DOMAIN x = {"type", "content"}
  \/ /\ x.type = "date"
     /\ DOMAIN x = {"type", "date"}
     /\ x.date # <<>>
  \/ /\ x.type = "message"
     /\ DOMAIN x \in {{"type", "user", "content", "timestamp", "isContinuation"},
                      {"type", "user", "content", "timestamp", "isContinuation",
                       "fullTimestamp"}}
     /\ x.isContinuation \in BOOLEAN

UsersOf(msgs) == {msgs[i].user : i \in ItemsOfType(msgs, "message")}

IsParseResult(r) ==
  /\ DOMAIN r = {"messages", "users", "title"}
  /\ r.title # <<>>
  /\ \A i \in 1..Len(r.messages) : IsChatItem(r.messages[i])
  /\ \A i \in 1..Len(r.users) : r.users[i] \in UsersOf(r.messages)

(***************************************************************************)
(* C1.  For every input string, the empty string, inputs of fewer than     *)
(* three lines and inputs no line of which matches a rule included,        *)
(* parseChat returns an item list, a speaker list and a title, and no      *)
(* statement throws.                                                       *)
(***************************************************************************)
C1_ParseIsTotal ==
  /\ pc # "threw"
  /\ pc = "done" => IsParseResult(result) /\ IsParseResult(result2)
  /\ pc = "run" /\ input # <<>> => ENABLED Return

\* The empty string, parsed: one empty line, no item, the default title.
C1_EmptyStringParsed ==
  /\ pc = "done"
  /\ Len(input) = 1 /\ input[1].raw = <<>>
  /\ result = [messages |-> <<>>, users |-> <<>>, title |-> DefaultTitle]

(***************************************************************************)
(* C2.  A Message has isContinuation = TRUE if and only if the item right  *)
(* before it in the list is a Message of the same speaker and the same     *)
(* display timestamp; first in the list, or right after a DateMarker or a  *)
(* SystemNotice, it has isContinuation = FALSE.                            *)
(***************************************************************************)
ContinuesPrevious(msgs, i) ==
  /\ i > 1
  /\ msgs[i - 1].type = "message"
  /\ msgs[i - 1].user = msgs[i].user
  /\ msgs[i - 1].timestamp = msgs[i].timestamp

C2_ContinuationIffPreviousItem ==
  \A i \in ItemsOfType(messages, "message") :
    messages[i].isContinuation <=> ContinuesPrevious(messages, i)

(***************************************************************************)
(* C3.  After a date-only header line has been processed, whether it       *)
(* emitted a DateMarker or was skipped as a duplicate of lastDate, the     *)
(* current-message tracker is empty.                                       *)
(***************************************************************************)
C3_HeaderEmptiesTracker ==
  InBody /\ input[Last].kind = "header" =>
    lastMessage = NullRef /\ lastMessage2 = NullRef

(***************************************************************************)
(* C4.  Two DateMarkers with no DateMarker between them stand for          *)
(* different calendar dates (year, month, day as numbers), however the     *)
(* dates are spelled.                                                      *)
(***************************************************************************)
\* The calendar date the payload of a DateMarker starts with.
CalendarDate(text) ==
  LET g == DateGroups(text, 1)
  IN  <<parseInt(g.year), parseInt(g.month), parseInt(g.day)>>

ConsecutiveMarkersDiffer(msgs) ==
  \A i, j \in ItemsOfType(msgs, "date") :
    (i < j /\ \A k \in (i + 1)..(j - 1) : msgs[k].type # "date") =>
      CalendarDate(msgs[i].date) # CalendarDate(msgs[j].date)

C4_ConsecutiveMarkersDiffer ==
  ConsecutiveMarkersDiffer(messages) /\ ConsecutiveMarkersDiffer(messages2)

(***************************************************************************)
(* Steps of the loop, as the properties see them                           *)
(***************************************************************************)
\* This step processes one line behind the header.
LineStep == Len(input) >= HeaderSize /\ Len(input') = Len(input) + 1

\* The line this step processes.
NewLine == input'[Len(input')]

\* in ends with a message line followed by text lines only (possibly none);
\* MessageLineOfRun is the index of that message line.
MessageLineOfRun(in) ==
  LET c == {j \in (HeaderSize + 1)..Len(in) :
              in[j].kind = "message" /\ \A k \in (j + 1)..Len(in) : in[k].kind = "text"}
  IN  IF c = {} THEN 0 ELSE CHOOSE j \in c : TRUE

\* body, then each text line behind a newline, in input order.
RECURSIVE JoinedBody(_, _, _)
JoinedBody(in, j, n) ==
  IF n = j THEN in[j].body
  ELSE JoinedBody(in, j, n - 1) \o <<"\n">> \o in[n].body

(***************************************************************************)
(* C5.  k >= 1 non-empty lines that match none of rules 1-3 and directly   *)
(* follow a message line add no item; the body of that Message becomes its *)
(* trimmed content followed by the k trimmed lines in input order, each    *)
(* behind one newline; speakers, lastDate and all other items stay.        *)
(***************************************************************************)
BodyIsJoined(msgs) ==
  LET j == MessageLineOfRun(input)
  IN  j # 0 =>
        /\ msgs # <<>>
        /\ msgs[Len(msgs)].type = "message"
        /\ msgs[Len(msgs)].user = input[j].speaker
        /\ msgs[Len(msgs)].content = JoinedBody(input, j, Len(input))

AbsorbsLine(msgs, msgsAfter) ==
  /\ msgs # <<>>
  /\ msgsAfter = [msgs EXCEPT ![Len(msgs)].content = @ \o <<"\n">> \o NewLine.body]

C5_TextAbsorbed ==
  (LineStep /\ NewLine.kind = "text" /\ MessageLineOfRun(input) # 0) =>
    /\ AbsorbsLine(messages, messages') /\ AbsorbsLine(messages2, messages2')
    /\ UNCHANGED <<users, lastDate, lastMessage, users2, lastDate2, lastMessage2>>

C5_MultiLineBody ==
  /\ [](BodyIsJoined(messages) /\ BodyIsJoined(messages2))
  /\ [][C5_TextAbsorbed]_vars

\* A message line and two different text lines behind it have been processed.
C5_TwoLinesAbsorbed ==
  /\ Len(input) >= HeaderSize + 3
  /\ input[Last - 2].kind = "message"
  /\ input[Last - 1].kind = "text" /\ input[Last].kind = "text"
  /\ input[Last - 1].body # input[Last].body
  /\ Len(messages) = 2
  /\ messages[2].content =
       input[Last - 2].body \o <<"\n">> \o input[Last - 1].body \o <<"\n">> \o input[Last].body

(***************************************************************************)
(* C6.  The deletion sentinel emits exactly one SystemNotice carrying the  *)
(* sentinel text and empties the tracker: a non-matching line behind it is *)
(* discarded, and the next Message has isContinuation = FALSE even when    *)
(* its speaker and display timestamp are those of the Message before the   *)
(* marker.                                                                 *)
(***************************************************************************)
\* in holds a deletion marker with no message line behind it.
NoMessageSinceDeleted(in) ==
  \E j \in (HeaderSize + 1)..Len(in) :
    in[j].kind = "deleted" /\ \A k \in (j + 1)..Len(in) : in[k].kind # "message"

SystemNotice == [type |-> "system", content |-> DELETED]

C6_DeletedStep ==
  /\ (LineStep /\ NewLine.kind = "deleted") =>
       /\ messages' = Append(messages, SystemNotice)
       /\ messages2' = Append(messages2, SystemNotice)
       /\ lastMessage' = NullRef /\ lastMessage2' = NullRef
       /\ UNCHANGED <<users, lastDate, users2, lastDate2>>
  /\ (LineStep /\ NewLine.kind = "text" /\ NoMessageSinceDeleted(input)) =>
       UNCHANGED <<messages, messages2>>
  /\ (LineStep /\ NewLine.kind = "message" /\ NoMessageSinceDeleted(input)) =>
       /\ messages'[Len(messages')].type = "message"
       /\ ~ messages'[Len(messages')].isContinuation
       /\ messages2'[Len(messages2')].type = "message"
       /\ ~ messages2'[Len(messages2')].isContinuation

C6_DeletionResets == [][C6_DeletedStep]_vars

\* Message, sentinel, then the same speaker at the same time: no continuation.
C6_SameSpeakerAfterMarker ==
  /\ Len(input) >= HeaderSize + 3
  /\ input[Last - 2].kind = "message" /\ input[Last - 1].kind = "deleted"
  /\ input[Last].kind = "message"
  /\ input[Last].speaker = input[Last - 2].speaker
  /\ input[Last].time = input[Last - 2].time
  /\ input[Last].date = input[Last - 2].date
  /\ messages[Len(messages) - 1] = SystemNotice
  /\ ~ messages[Len(messages)].isContinuation

(***************************************************************************)
(* C7.  Of two message lines with only empty lines between them, the       *)
(* second Message has isContinuation = TRUE when both have the same        *)
(* trimmed speaker and the same display timestamp, whatever their dates,   *)
(* and FALSE when the speaker or the display timestamp differs.            *)
(***************************************************************************)
ContinuationLaw(msgs) ==
  LET p == PrevNonBlank(input, Last)
  IN  (InBody /\ input[Last].kind = "message" /\ p # 0 /\ input[p].kind = "message") =>
        /\ msgs[Len(msgs)].type = "message"
        /\ msgs[Len(msgs)].isContinuation =
             (input[Last].speaker = input[p].speaker /\ input[Last].time = input[p].time)

C7_ContinuationLaw == ContinuationLaw(messages) /\ ContinuationLaw(messages2)

\* Same speaker and display timestamp on two different dates: a continuation.
C7_ContinuationAcrossDates ==
  /\ Len(input) >= HeaderSize + 2
  /\ input[Last].kind = "message" /\ input[Last - 1].kind = "message"
  /\ input[Last].speaker = input[Last - 1].speaker
  /\ input[Last].time = input[Last - 1].time
  /\ input[Last].date.ymd # input[Last - 1].date.ymd
  /\ messages[Len(messages)].isContinuation

(***************************************************************************)
(* C8.  A message line whose date, formatted with its weekday, differs     *)
(* from lastDate emits one DateMarker right before its Message and sets    *)
(* lastDate to that date; one whose date equals lastDate emits the Message *)
(* alone.  A header for date D followed by message lines of date D gives   *)
(* one DateMarker.                                                         *)
(***************************************************************************)
\* What a message line adds to msgs; payload is the date text of its marker.
MessageLineEmits(msgs, last, msgsAfter, lastAfter, payload) ==
  LET n  == Len(msgs)
      fd == <<WithWeekday(NewLine.date)>>
  IN  /\ SubSeq(msgsAfter, 1, n) = msgs
      /\ IF fd # last
           THEN /\ Len(msgsAfter) = n + 2
                /\ msgsAfter[n + 1] = [type |-> "date", date |-> payload]
                /\ msgsAfter[n + 2].type = "message"
                /\ msgsAfter[n + 2].user = NewLine.speaker
                /\ lastAfter = fd
           ELSE /\ Len(msgsAfter) = n + 1
                /\ msgsAfter[n + 1].type = "message"
                /\ msgsAfter[n + 1].user = NewLine.speaker
                /\ lastAfter = last

C8_MessageStep ==
  (LineStep /\ NewLine.kind = "message") =>
    /\ MessageLineEmits(messages, lastDate, messages', lastDate',
                        NewLine.date.text \o <<" ">> \o NewLine.time)
    /\ MessageLineEmits(messages2, lastDate2, messages2', lastDate2',
                        WithWeekday(NewLine.date))

\* The lines behind the header are a header of some date and then message
\* lines of that date, spelled the same.
HeaderThenItsMessages ==
  /\ InBody
  /\ input[HeaderSize + 1].kind = "header"
  /\ \A k \in (HeaderSize + 2)..Len(input) :
       input[k].kind = "message" /\ input[k].date = input[HeaderSize + 1].date

C8_OneMarkerPerDate ==
  HeaderThenItsMessages =>
    /\ Cardinality(ItemsOfType(messages, "date")) = 1
    /\ Cardinality(ItemsOfType(messages2, "date")) = 1

C8_MessageDateMarker == []C8_OneMarkerPerDate /\ [][C8_MessageStep]_vars

\* A header and two message lines of its date: one DateMarker, two Messages.
C8_HeaderAndTwoMessages ==
  /\ HeaderThenItsMessages
  /\ Len(input) = HeaderSize + 3
  /\ Len(messages) = 3
  /\ messages[1].type = "date" /\ messages[2].type = "message"
  /\ messages[3].type = "message"

(***************************************************************************)
(* C9.  The item list keeps the order of the input lines: items are only   *)
(* ever appended at the end, each line appends the items it emits, and the *)
(* two items of one message line are a DateMarker and then a Message.      *)
(***************************************************************************)
\* An item and its later state: only the body of a Message may have grown.
SameItem(x, y) ==
  IF x.type = "message"
    THEN /\ y.type = "message"
         /\ y.user = x.user /\ y.timestamp = x.timestamp
         /\ y.isContinuation = x.isContinuation
         /\ SubSeq(y.content, 1, Len(x.content)) = x.content
    ELSE y = x

\* The types of the items a line of a kind may append.
EmittedBy(kind) ==
  CASE kind = "deleted" -> {<<"system">>}
    [] kind = "header"  -> {<<>>, <<"date">>}
    [] kind = "message" -> {<<"message">>, <<"date", "message">>}
    [] OTHER            -> {<<>>}

AppendsInOrder(msgs, msgsAfter) ==
  /\ Len(msgsAfter) >= Len(msgs)
  /\ \A i \in 1..Len(msgs) : SameItem(msgs[i], msgsAfter[i])
  /\ IF LineStep
       THEN [i \in 1..(Len(msgsAfter) - Len(msgs)) |-> msgsAfter[Len(msgs) + i].type]
              \in EmittedBy(NewLine.kind)
       ELSE Len(msgsAfter) = Len(msgs)

C9_ItemsInLineOrder ==
  [][AppendsInOrder(messages, messages') /\ AppendsInOrder(messages2, messages2')]_vars

\* Two message lines of different dates: marker, Message, marker, Message.
C9_TwoMarkersTwoMessages ==
  /\ Len(input) = HeaderSize + 2
  /\ input[Last - 1].kind = "message" /\ input[Last].kind = "message"
  /\ Len(messages) = 4
  /\ messages[1].type = "date" /\ messages[2].type = "message"
  /\ messages[3].type = "date" /\ messages[4].type = "message"
  /\ messages[2].user = input[Last - 1].speaker
  /\ messages[4].user = input[Last].speaker

(***************************************************************************)
(* C10.  The speakers list has no duplicates, holds exactly the trimmed    *)
(* speaker names of the Message items, and lists them in the order of      *)
(* each name's first Message.                                              *)
(***************************************************************************)
\* The elements of s in the order of their first occurrence.
RECURSIVE FirstSeen(_)
FirstSeen(s) ==
  IF s = <<>> THEN <<>>
  ELSE LET r == FirstSeen(SubSeq(s, 1, Len(s) - 1))
       IN  IF \E k \in 1..Len(r) : r[k] = s[Len(s)] THEN r ELSE Append(r, s[Len(s)])

\* The speakers of the Message items of msgs, in list order.
SpeakersOf(msgs) ==
  LET ms == SelectSeq(msgs, LAMBDA x : x.type = "message")
  IN  [i \in 1..Len(ms) |-> ms[i].user]

\* The speakers the message lines behind the header were written with.
SpeakersWritten ==
  LET ls == SelectSeq(SubSeq(input, HeaderSize + 1, Len(input)),
                      LAMBDA l : l.kind = "message")
  IN  [i \in 1..Len(ls) |-> ls[i].speaker]

C10_SpeakersFirstSeen ==
  /\ users = FirstSeen(SpeakersOf(messages))
  /\ users2 = FirstSeen(SpeakersOf(messages2))
  /\ InBody => users = FirstSeen(SpeakersWritten)
  /\ pc = "done" => result.users = users /\ result2.users = users2

\* Messages by A, B, A, returned: speakers = [A, B].
C10_SpeakersABA ==
  /\ pc = "done"
  /\ SpeakersOf(result.messages) = <<<<"A">>, <<"B">>, <<"A">>>>
  /\ result.users = <<<<"A">>, <<"B">>>>

(***************************************************************************)
(* C11.  The first three lines of the input never produce an item or a     *)
(* speaker, whatever they hold: while no more than three lines have been   *)
(* read the item list and the speakers are empty, and an input of fewer    *)
(* than four lines returns no item and no speaker.                         *)
(***************************************************************************)
C11_HeaderLinesSkipped ==
  /\ Len(input) <= 3 =>
       /\ messages = <<>> /\ users = <<>>
       /\ messages2 = <<>> /\ users2 = <<>>
  /\ (pc = "done" /\ Len(input) < 4) =>
       /\ result.messages = <<>> /\ result.users = <<>>
       /\ result2.messages = <<>> /\ result2.users = <<>>

\* An input of three lines, a message line and a deletion sentinel among
\* them, has returned.
C11_MessageLineInHeader ==
  /\ pc = "done"
  /\ Len(input) = 3
  /\ \E i \in 1..3 : input[i].kind = "message"
  /\ \E i \in 1..3 : input[i].kind = "deleted"
  /\ result.messages = <<>> /\ result.users = <<>>

(***************************************************************************)
(* C12.  The title is the first line of the input without the white space  *)
(* around it when that leaves a character, and DefaultTitle when the first *)
(* line is empty or white space only (the empty input included); no later  *)
(* line has a part in it.                                                  *)
(***************************************************************************)
\* t is line without the white space at its two ends.
IsTrimOf(t, line) ==
  \E i \in 1..(Len(line) + 1), j \in 0..Len(line) :
    /\ t = SubSeq(line, i, j)
    /\ \A k \in 1..(i - 1) : line[k] \in WhiteSpace
    /\ \A k \in (j + 1)..Len(line) : line[k] \in WhiteSpace
    /\ t # <<>> => t[1] \notin WhiteSpace /\ t[Len(t)] \notin WhiteSpace

C12_TitleIsTrimmedFirstLine ==
  /\ input # <<>> =>
       IF IsTrimOf(<<>>, input[1].raw)
         THEN title = DefaultTitle
         ELSE IsTrimOf(title, input[1].raw)
  /\ pc = "done" => result.title = title /\ result2.title = title

\* The statement as written: the title is the first line itself.
C12_TitleIsFirstLine ==
  input # <<>> =>
    title = IF input[1].raw = <<>> THEN DefaultTitle ELSE input[1].raw

\* A first line ending in a carriage return, lines behind the header, and the
\* title returned without the carriage return.
C12_TitleWithoutCarriageReturn ==
  /\ pc = "done"
  /\ Len(input) > HeaderSize
  /\ input[1].raw = <<"T", "\r">>
  /\ result.title = <<"T">>

(***************************************************************************)
(* C13.  A non-empty line that matches no rule and arrives while the       *)
(* tracker is empty is discarded: the items, the bodies, the speakers,     *)
(* lastDate and the tracker are left as they were.                         *)
(***************************************************************************)
C13_OrphanStep ==
  /\ (LineStep /\ NewLine.kind = "text" /\ lastMessage = NullRef) =>
       /\ UNCHANGED <<messages, users, lastDate, lastMessage>>
       /\ pc' = "run"
  /\ (LineStep /\ NewLine.kind = "text" /\ lastMessage2 = NullRef) =>
       UNCHANGED <<messages2, users2, lastDate2, lastMessage2>>

C13_OrphanLineDiscarded == [][C13_OrphanStep]_vars

\* A text line has been processed behind items with the tracker empty.
C13_TextAfterSentinel ==
  /\ InBody
  /\ pc = "run"
  /\ input[Last].kind = "text"
  /\ input[Last - 1].kind \in {"deleted", "header"}
  /\ messages # <<>>
  /\ lastMessage = NullRef

(***************************************************************************)
(* C14.  A date-only header line processed right after the same line has   *)
(* no effect: it pushes no item and leaves the items, lastDate, the        *)
(* speakers and the tracker as they were, so the two lines yield one       *)
(* DateMarker at most, and exactly one when they open the transcript.      *)
(***************************************************************************)
C14_RepeatedHeaderStep ==
  (LineStep /\ InBody /\ NewLine.kind = "header" /\ input[Last] = NewLine) =>
    /\ UNCHANGED <<messages, users, lastDate, lastMessage>>
    /\ UNCHANGED <<messages2, users2, lastDate2, lastMessage2>>
    /\ Len(input) = HeaderSize + 1 => Len(messages') = 1 /\ Len(messages2') = 1

StartsWithThereAndBack ==
  /\ Len(input) >= HeaderSize + 3
  /\ \A i \in 4..6 : input[i].kind = "header"
  /\ input[4].date = input[6].date
  /\ input[4].date.ymd # input[5].date.ymd

C15_ThreeMarkers ==
  StartsWithThereAndBack =>
    /\ Len(messages) >= 3 /\ Len(messages2) >= 3
    /\ \A i \in 1..3 :
         /\ messages[i] = [type |-> "date", date |-> input[HeaderSize + i].date.text
                                                       \o <<" ">> \o input[HeaderSize + i].time]
         /\ messages2[i] = [type |-> "date", date |-> WithWeekday(input[HeaderSize + i].date)]

\* Headers of 1 January, 2 January and 1 January again, and nothing else.
C15_ThereAndBack ==
  /\ StartsWithThereAndBack
  /\ Len(input) = HeaderSize + 3
  /\ ItemsOfType(messages, "date") = {1, 2, 3}
  /\ messages[1] = messages[3]

(***************************************************************************)
(* C16.  The one-day conversation (a date-only header of 1 January 2024,   *)
(* A : hello and A : world in the same minute, the deletion sentinel,      *)
(* B : hi in that minute) returns five items: a DateMarker, the Message    *)
(* hello of A (no continuation), the Message world of A (continuation),    *)
(* the notice of the deletion, the Message hi of B (no continuation); the  *)
(* speakers are A, B.                                                      *)
(***************************************************************************)
\* The Message item of a message line.
MessageOf(l, continuation) ==
  [type |-> "message", user |-> l.speaker, content |-> l.body, timestamp |-> l.time,
   isContinuation |-> continuation]

\* The items of msgs, a Message cut down to the fields both variants give it.
Shown(msgs) ==
  [i \in 1..Len(msgs) |->
     IF msgs[i].type = "message"
       THEN [type |-> "message", user |-> msgs[i].user, content |-> msgs[i].content,
             timestamp |-> msgs[i].timestamp, isContinuation |-> msgs[i].isContinuation]
       ELSE msgs[i]]

\* The items of the one-day conversation behind the DateMarker.
ScenarioMessages ==
  << MessageOf(Scenario[2], FALSE), MessageOf(Scenario[3], TRUE), SystemNotice,
     MessageOf(Scenario[5], FALSE) >>

ScenarioParsed == pc = "done" /\ input = Header \o Scenario

C16_ScenarioResult ==
  ScenarioParsed =>
    /\ Shown(result.messages) =
         <<[type |-> "date", date |-> Scenario[1].raw]>> \o ScenarioMessages
    /\ Shown(result2.messages) =
         <<[type |-> "date", date |-> WithWeekday(Jan1)]>> \o ScenarioMessages
    /\ result.users = <<<<"A">>, <<"B">>>>
    /\ result2.users = <<<<"A">>, <<"B">>>>

\* The one-day conversation has been parsed and five items returned.
C16_ScenarioReturned ==
  /\ ScenarioParsed
  /\ Len(result.messages) = 5
  /\ result.messages[3].content = <<"w", "o", "r", "l", "d">>
  /\ result.messages[3].isContinuation

(***************************************************************************)
(* C17.  Two runs of parseChat on the same input return the same title,    *)
(* the same speakers and the same items, field by field; the ids, which    *)
(* are drawn afresh for every item, are the one thing that may differ.     *)
(***************************************************************************)
BothReturned == pc = "done" /\ other.pc = "done"

RECURSIVE RunAlone(_, _)
RunAlone(in, n) ==
  IF n <= HeaderSize THEN EmptyRun
  ELSE LoopBody(RunAlone(in, n - 1), LocalsOf[in[n]])

\* st holds what the run of in alone holds after its last line.
SameAsAlone(st, in) ==
  LET alone == RunAlone(in, Len(in))
  IN  /\ st.messages = alone.messages
      /\ st.users = alone.users
      /\ st.lastDate = alone.lastDate
      /\ st.lastMessage = alone.lastMessage

C18_EachAsAlone ==
  /\ SameAsAlone(State1, input)
  /\ SameAsAlone(StateOther, other.input)
  /\ pc = "done" =>
       /\ result.messages = RunAlone(input, Len(input)).messages
       /\ result.users = RunAlone(input, Len(input)).users
  /\ other.pc = "done" =>
       /\ other.result.messages = RunAlone(other.input, Len(other.input)).messages
       /\ other.result.users = RunAlone(other.input, Len(other.input)).users

\* Both invocations have returned items, for inputs that differ from the
\* first line behind the header on.
C18_TwoInputsReturned ==
  /\ BothReturned
  /\ Len(input) = HeaderSize + 2 /\ Len(other.input) = HeaderSize + 2
  /\ input[4] # other.input[4]
  /\ result.messages # <<>> /\ other.result.messages # <<>>
  /\ result.messages # other.result.messages

(***************************************************************************)
(* C19.  The ids of the items are unique: no two items of a parse result   *)
(* carry the same id.                                                      *)
(***************************************************************************)
C19_IdsUnique ==
  \A i, j \in 1..Len(ids) : i # j => ids[i] # ids[j]

(***************************************************************************)
(* C20.  A date-only header whose date text matches the pattern and names  *)
(* no day of the calendar (month 13, month 0, day 0, day 32) leaves its    *)
(* date text, as written and with no weekday behind it, in lastDate.       *)
(***************************************************************************)
\* date names a day of the calendar.
IsCalendarDay(date) == date.weekday # ""

C20_InvalidDateKeptRaw ==
  (InBody /\ input[Last].kind = "header" /\ ~IsCalendarDay(input[Last].date)) =>
    /\ lastDate = <<input[Last].date.text>>
    /\ lastDate2 = <<input[Last].date.text>>

(***************************************************************************)
(* C21.  An empty line or a line of white space behind the header changes  *)
(* nothing: no item, and the items, the speakers, lastDate and the tracker *)
(* as they were.  A text line behind a message line, with such lines in    *)
(* between, is appended to the body of that Message, and the lines in      *)
(* between leave nothing in the body.                                      *)
(***************************************************************************)
\* The line this step processes comes behind a message line, with blank
\* lines only in between (possibly none).
FollowsMessageLine ==
  LET p == PrevNonBlank(input, Len(input) + 1)
  IN  p # 0 /\ input[p].kind = "message"

\* The last item of msgs is the Message of the last message line, and the
\* step appends the new line to it.
AppendsToItsMessage(msgs, msgsAfter) ==
  LET p == PrevNonBlank(input, Len(input) + 1)
  IN  /\ msgs # <<>>
      /\ msgs[Len(msgs)].type = "message"
      /\ msgs[Len(msgs)].content = input[p].body
      /\ msgsAfter = [msgs EXCEPT ![Len(msgs)].content =
                                     input[p].body \o <<"\n">> \o NewLine.body]

C21_BlankStep ==
  /\ (LineStep /\ NewLine.kind = "blank") =>
       /\ UNCHANGED <<messages, users, lastDate, lastMessage>>
       /\ UNCHANGED <<messages2, users2, lastDate2, lastMessage2>>
       /\ pc' = "run"
  /\ (LineStep /\ NewLine.kind = "text" /\ FollowsMessageLine) =>
       /\ AppendsToItsMessage(messages, messages')
       /\ AppendsToItsMessage(messages2, messages2')

C21_BlankLinesIgnored == [][C21_BlankStep]_vars

\* A message line, an empty line, a line of white space and a text line:
\* the body is the message and the text, one newline between them.
C21_TextBehindBlankLines ==
  /\ Len(input) = HeaderSize + 4
  /\ input[4].kind = "message"
  /\ input[5].kind = "blank" /\ input[5].raw = <<>>
  /\ input[6].kind = "blank" /\ input[6].raw # <<>>
  /\ input[7].kind = "text"
  /\ Len(messages) = 2
  /\ messages[2].content = input[4].body \o <<"\n">> \o input[7].body

(***************************************************************************)
(* C22.  Every line written as a timestamp, ", ", a speaker, " : " and a   *)
(* content yields a Message of the speaker and the content, trimmed, for   *)
(* every content: one with a further " : ", an empty one, one of white     *)
(* space (the body is then empty).                                         *)
(***************************************************************************)
\* The last item of msgs is the Message of line l.
EndsWithMessageOf(msgs, l) ==
  /\ msgs # <<>>
  /\ msgs[Len(msgs)].type = "message"
  /\ msgs[Len(msgs)].user = l.speaker
  /\ msgs[Len(msgs)].content = l.body

C22_MessageForEveryContent ==
  (InBody /\ pc = "run" /\ input[Last].kind = "message") =>
    /\ EndsWithMessageOf(messages, input[Last])
    /\ EndsWithMessageOf(messages2, input[Last])

(***************************************************************************)
(* C23.  The display timestamp of a Message is the time of its own line,   *)
(* "ojeon" or "ohu" and H:MM, without the date, and it is never empty.     *)
(***************************************************************************)
\* The Message items of msgs, in list order.
MessagesOf(msgs) == SelectSeq(msgs, LAMBDA x : x.type = "message")

\* The message lines behind the header, in input order.
MessageLinesRead ==
  SelectSeq(SubSeq(input, HeaderSize + 1, Len(input)), LAMBDA l : l.kind = "message")

\* The k-th Message carries the time the k-th message line was written with.
TimesOfLines(msgs) ==
  /\ Len(MessagesOf(msgs)) = Len(MessageLinesRead)
  /\ \A k \in 1..Len(MessageLinesRead) :
       /\ MessagesOf(msgs)[k].timestamp = MessageLinesRead[k].time
       /\ MessagesOf(msgs)[k].timestamp # <<>>

C23_DisplayTimestamp ==
  /\ TimesOfLines(messages) /\ TimesOfLines(messages2)
  /\ pc = "done" => result.messages = messages /\ result2.messages = messages2

\* A Message of the morning and one of the evening have been returned.
C23_MorningAndEvening ==
  /\ pc = "done"
  /\ Len(MessagesOf(result.messages)) = 2
  /\ MessagesOf(result.messages)[1].timestamp = Morning
  /\ MessagesOf(result.messages)[2].timestamp = Evening

(***************************************************************************)
(* C24.  After every line, lastDate is null exactly when no DateMarker has *)
(* been pushed, and is otherwise the date of the last DateMarker pushed,   *)
(* formatted with its weekday; a step changes lastDate exactly when it     *)
(* pushes a DateMarker.                                                    *)
(***************************************************************************)
\* The number of DateMarkers of msgs.
DateCount(msgs) == Cardinality(ItemsOfType(msgs, "date"))

\* The last DateMarker of msgs.
LastMarker(msgs) ==
  LET c == ItemsOfType(msgs, "date")
  IN  msgs[CHOOSE i \in c : \A j \in c : j <= i]

\* The payload the first (second) variant gives the DateMarker of line l.
Payload(l, variant) ==
  IF variant = 1 THEN l.date.text \o <<" ">> \o l.time ELSE WithWeekday(l.date)

\* last is null when msgs has no DateMarker, and otherwise the date, with its
\* weekday, of a line of in that the payload of the last DateMarker is of.
TracksLastMarker(msgs, last, in, variant) ==
  IF ItemsOfType(msgs, "date") = {} THEN last = <<>>
  ELSE \E i \in (HeaderSize + 1)..Len(in) :
         /\ in[i].kind \in {"header", "message"}
         /\ Payload(in[i], variant) = LastMarker(msgs).date
         /\ last = <<WithWeekday(in[i].date)>>

C24_LastDateStep ==
  LineStep =>
    /\ TracksLastMarker(messages', lastDate', input', 1)
    /\ TracksLastMarker(messages2', lastDate2', input', 2)
    /\ lastDate' # lastDate <=> DateCount(messages') > DateCount(messages)
    /\ lastDate2' # lastDate2 <=> DateCount(messages2') > DateCount(messages2)

C24_LastDateOfLastMarker == [][C24_LastDateStep]_vars

\* A message line of 2 January behind a header of 1 January: two DateMarkers,
\* lastDate that of the second.
C24_MarkerOfMessageLine ==
  /\ Len(input) = HeaderSize + 2
  /\ input[4].kind = "header" /\ input[5].kind = "message"
  /\ input[4].date.ymd # input[5].date.ymd
  /\ DateCount(messages) = 2
  /\ lastDate = <<WithWeekday(input[5].date)>>

(***************************************************************************)
(* C25.  After every line, the tracker is set exactly when the last item   *)
(* of the list is a Message, and it is then that item; so a line that is   *)
(* appended to a body changes the last item of the list and no other.      *)
(***************************************************************************)
\* last is null unless msgs ends with a Message, which it then refers to.
TracksLastItem(msgs, last) ==
  /\ last # NullRef <=> (msgs # <<>> /\ msgs[Len(msgs)].type = "message")
  /\ last # NullRef => last = Len(msgs)

\* All items but the last one are the same in msgs and msgsAfter.
OnlyLastItemChanged(msgs, msgsAfter) ==
  /\ Len(msgsAfter) = Len(msgs)
  /\ \A i \in 1..(Len(msgs) - 1) : msgsAfter[i] = msgs[i]

C25_TrackerStep ==
  LineStep =>
    /\ TracksLastItem(messages', lastMessage')
    /\ TracksLastItem(messages2', lastMessage2')
    /\ NewLine.kind = "text" =>
         /\ OnlyLastItemChanged(messages, messages')
         /\ OnlyLastItemChanged(messages2, messages2')

C25_TrackerIsLastItem == [][C25_TrackerStep]_vars

\* A text line has been appended to the second Message of the list, the last
\* of four items.
C25_AppendedToLastItem ==
  /\ InBody
  /\ input[Last].kind = "text"
  /\ Len(messages) = 4
  /\ lastMessage = 4
  /\ messages[4].content = input[Last - 1].body \o <<"\n">> \o input[Last].body

(***************************************************************************)
(* C26.  Every Message has a DateMarker before it in the list, and the     *)
(* nearest one stands for the date its own line was written with (year,    *)
(* month and day as written).                                              *)
(***************************************************************************)
\* payload starts with the date text and a space.
IsOfDate(payload, text) ==
  /\ Len(payload) > Len(text)
  /\ SubSeq(payload, 1, Len(text)) = text
  /\ payload[Len(text) + 1] = " "

\* The line the Message at index i of msgs was pushed for: the k-th message
\* line for the k-th Message.
LineOfMessage(msgs, i) ==
  MessageLinesRead[Cardinality({j \in 1..i : msgs[j].type = "message"})]

MarkerBeforeEveryMessage(msgs) ==
  \A i \in ItemsOfType(msgs, "message") :
    LET before == {j \in ItemsOfType(msgs, "date") : j < i}
    IN  /\ before # {}
        /\ IsOfDate(msgs[CHOOSE j \in before : \A k \in before : k <= j].date,
                    LineOfMessage(msgs, i).date.text)

C26_MarkerBeforeEveryMessage ==
  /\ MarkerBeforeEveryMessage(messages) /\ MarkerBeforeEveryMessage(messages2)
  /\ pc = "done" =>
       /\ MarkerBeforeEveryMessage(result.messages)
       /\ MarkerBeforeEveryMessage(result2.messages)

\* Message lines of 1 January, of 2 January and of 1 January written 01,
\* with no header: each Message has its own DateMarker right before it.
C26_ThreeDatesNoHeader ==
  /\ pc = "done"
  /\ Len(input) = HeaderSize + 3
  /\ \A i \in 4..6 : input[i].kind = "message"
  /\ input[4].date.text # input[5].date.text
  /\ input[5].date.text # input[6].date.text
  /\ input[4].date.text # input[6].date.text
  /\ ItemsOfType(result.messages, "date") = {1, 3, 5}

(***************************************************************************)
(* C27.  The two variants of parseChat return, for the same input, the     *)
(* same title, the same speakers and lists of items of the same kinds with *)
(* the same speaker, body, display timestamp and continuation flag in      *)
(* every Message and the same text in every notice.  The payload of a      *)
(* DateMarker differs (the timestamp as written; the date with its         *)
(* weekday), and the first variant's Messages carry fullTimestamp.         *)
(***************************************************************************)
\* The items of msgs without the payload of the DateMarkers and without
\* fullTimestamp.
WithoutPayload(msgs) ==
  [i \in 1..Len(msgs) |-> IF msgs[i].type = "date" THEN [type |-> "date"] ELSE Shown(msgs)[i]]

\* The DateMarkers at index i of the two lists are of one line of the input.
SameMarker(i) ==
  \E k \in (HeaderSize + 1)..Len(input) :
    /\ input[k].kind \in {"header", "message"}
    /\ messages[i].date = Payload(input[k], 1)
    /\ messages2[i].date = Payload(input[k], 2)

C27_VariantsAgree ==
  /\ WithoutPayload(messages) = WithoutPayload(messages2)
  /\ \A i \in ItemsOfType(messages, "date") : SameMarker(i)
  /\ \A i \in ItemsOfType(messages, "message") :
       /\ "fullTimestamp" \in DOMAIN messages[i]
       /\ "fullTimestamp" \notin DOMAIN messages2[i]
  /\ users = users2
  /\ lastMessage = lastMessage2
  /\ pc = "done" =>
       /\ result.title = result2.title
       /\ result.users = result2.users
       /\ result.messages = messages /\ result2.messages = messages2

\* Both variants have returned a DateMarker with payloads that differ, a
\* Message and the notice of a deletion.
C27_AllKindsReturned ==
  /\ pc = "done"
  /\ {result.messages[i].type : i \in 1..Len(result.messages)} = {"date", "message", "system"}
  /\ result.messages[1].type = "date"
  /\ result.messages[1].date # result2.messages[1].date
  /\ result.messages # result2.messages

(***************************************************************************)
(* C28.  parseChat returns for every input, having handled each line       *)
(* behind the header once and in order.  A line adds two items at most,    *)
(* and only a message line adds two, so the list never holds more than     *)
(* twice as many items as there are lines behind the header.               *)
(***************************************************************************)
\* The lines of the input behind the header.
LinesBehindHeader == IF Len(input) > 3 THEN Len(input) - 3 ELSE 0

\* The items a step adds to msgs are none, one or two, two for a message
\* line only, and the items it found stay where they are.
AddsTwoAtMost(msgs, msgsAfter) ==
  /\ Len(msgsAfter) - Len(msgs) \in 0..2
  /\ Len(msgsAfter) - Len(msgs) = 2 => NewLine.kind = "message"
  /\ \A i \in 1..Len(msgs) : msgsAfter[i].type = msgs[i].type

C28_Step ==
  /\ LineStep => AddsTwoAtMost(messages, messages') /\ AddsTwoAtMost(messages2, messages2')
  /\ Len(input') \in {Len(input), Len(input) + 1}
  /\ SubSeq(input', 1, Len(input)) = input

C28_ReturnsWithinBound ==
  /\ [][C28_Step]_vars
  /\ [](Len(messages) <= 2 * LinesBehindHeader /\ Len(messages2) <= 2 * LinesBehindHeader)
  /\ <>(pc = "done")

\* One message line behind the header and two items returned: the bound is
\* met.
C28_TwoItemsOfOneLine ==
  /\ pc = "done"
  /\ LinesBehindHeader = 1
  /\ Len(result.messages) = 2

(***************************************************************************)
(* C29: handleUpdateMessage(id, newContent) changes the content of the     *)
(* Messages of the list whose id is id and nothing else: the list keeps    *)
(* its length and order, those Messages keep every other field, every      *)
(* other item, a DateMarker or SystemNotice with that id included, is as   *)
(* it was, the rest of the state of the component is as it was, and the    *)
(* list parseChat returned, with the ids it gave, is as it was.            *)
(***************************************************************************)
\* The step is a call of handleUpdateMessage.
IsUpdateStep ==
  /\ app' # app
  /\ app'.called # <<>>
  /\ app'.called[1].handler = "handleUpdateMessage"

\* new is old with content for its content.
OnlyContentChanged(old, new, content) ==
  /\ DOMAIN new = DOMAIN old
  /\ new.content = content
  /\ \A f \in DOMAIN old \ {"content"} : new[f] = old[f]

C29_UpdateStep ==
  IsUpdateStep =>
    /\ Len(app'.chatItems) = Len(app.chatItems)
    /\ \A i \in 1..Len(app.chatItems) :
         IF app.chatItems[i].type = "message" /\ app.chatItems[i].id = app'.called[1].id
           THEN OnlyContentChanged(app.chatItems[i], app'.chatItems[i],
                                   app'.called[1].newContent)
           ELSE app'.chatItems[i] = app.chatItems[i]
    /\ \A f \in DOMAIN app \ {"chatItems", "called"} : app'[f] = app[f]
    /\ result' = result
    /\ ids' = ids

C29_UpdateChangesContentOnly == [][C29_UpdateStep]_vars

\* A Message has been given new content while a DateMarker of the list has
\* the id of that Message.
C29_MarkerWithTheIdOfTheMessage ==
  /\ app.called # <<>>
  /\ app.called[1].handler = "handleUpdateMessage"
  /\ \E i, j \in 1..Len(app.chatItems) :
       /\ app.chatItems[i].type = "message"
       /\ app.chatItems[i].id = app.called[1].id
       /\ app.chatItems[i].content = app.called[1].newContent
       /\ app.chatItems[j].type = "date"
       /\ app.chatItems[j].id = app.called[1].id
       /\ ItemsWithIds(result.messages, ids)[i].content # app.chatItems[i].content

(***************************************************************************)
(* C30: after handleSelectUser(name), name being one of the speakers       *)
(* parseChat returned, the users map holds one profile for each of those   *)
(* speakers and no other, the profile of name is the only one with isMe,   *)
(* and users[item.user] is the profile of its speaker for every Message of *)
(* chatItems; handleUpdateMessage leaves the map as it is, so that this    *)
(* holds for as long as the chat is shown.                                 *)
(***************************************************************************)
\* The speakers parseChat returned.
ParsedSpeakers == {result.users[n] : n \in 1..Len(result.users)}

\* The profiles the map holds, the one held as the prototype included.
ProfileCount(obj) ==
  Cardinality(DOMAIN obj.own) + (IF obj.proto = <<>> THEN 0 ELSE 1)

\* users[speaker] is a profile of that speaker.
HasProfile(obj, speaker) ==
  /\ GetProperty(obj, speaker) \notin {<<>>, <<ObjectPrototype>>}
  /\ GetProperty(obj, speaker)[1].name = speaker

ProfilesOfSelection(name) ==
  /\ \A s \in ParsedSpeakers : HasProfile(app.users, s)
  /\ ProfileCount(app.users) = Cardinality(ParsedSpeakers)
  /\ ProfileCount(app.users) = Len(result.users)
  /\ {s \in ParsedSpeakers : GetProperty(app.users, s)[1].isMe} = {name}
  /\ \A i \in 1..Len(app.chatItems) :
       app.chatItems[i].type = "message" => HasProfile(app.users, app.chatItems[i].user)

C30_UpdateKeepsUsers ==
  IsUpdateStep => app'.users = app.users

C30_ProfilesAfterSelection ==
  /\ [](app.called # <<>> /\ app.called[1].handler = "handleSelectUser"
          => ProfilesOfSelection(app.called[1].selectedName))
  /\ [](Screen = "chat" => \E name \in ParsedSpeakers : ProfilesOfSelection(name))
  /\ [][C30_UpdateKeepsUsers]_vars

\* The speaker named after the prototype key has been selected out of two
\* speakers, and a Message has been edited since.
C30_SelectedAndEdited ==
  /\ app.called # <<>>
  /\ app.called[1].handler = "handleUpdateMessage"
  /\ Len(result.users) = 2
  /\ app.users.proto # <<>>
  /\ app.users.proto[1].isMe
  /\ \E i \in 1..Len(app.chatItems) :
       app.chatItems[i].type = "message" /\ app.chatItems[i].user = ProtoKey

(***************************************************************************)
(* C31: an upload that fails after it has set isLoading (the archive       *)
(* cannot be read, holds no .txt file, or something throws) leaves the     *)
(* component on the upload screen with error set, parsedData null,         *)
(* isSelectingUser and isLoading false, and with chatItems, users and      *)
(* imageStore as they were.                                                *)
(***************************************************************************)
\* The catch of an upload has run.
UploadCaught ==
  app.called = <<[handler |-> "handleFileUpload", caught |-> TRUE]>>

\* What the component shows after a failed upload.
FailedUploadShown ==
  /\ Screen = "FileUpload"
  /\ app.error # <<>>
  /\ app.parsedData = <<>>
  /\ ~app.isSelectingUser
  /\ ~app.isLoading

C31_FailStep ==
  (UploadCaught' /\ app' # app) =>
    /\ app.isLoading
    /\ FailedUploadShown'
    /\ app'.chatItems = app.chatItems
    /\ app'.users = app.users
    /\ app'.imageStore = app.imageStore

C31_FailedUploadEndsOnUploadScreen ==
  [][C31_FailStep]_vars /\ [](UploadCaught => FailedUploadShown)

\* An upload has failed though parseChat had returned: reading an image threw.
C31_FailedAfterParse ==
  /\ UploadCaught
  /\ FailedUploadShown
  /\ pc = "done"
  /\ app.chatTitle = <<>>
  /\ app.chatItems = <<>>

(***************************************************************************)
(* C32: whenever the selection screen is shown (isSelectingUser is true    *)
(* and parsedData is set), a handler the user can call from that screen is *)
(* enabled and leaves the screen, whatever parseChat returned, a result    *)
(* without speakers included.                                              *)
(***************************************************************************)
\* What the user can do on the screen shown.
UserAction ==
  \/ UploadRejected
  \/ StartUpload
  \/ \E selectedName \in {l.speaker : l \in AppCatalogue} : handleSelectUser(selectedName)
  \/ \E i \in 1..(2 * MaxAppLines) : \E editText \in EditTexts : handleSave(i, editText)
  \/ handleGoBack

\* A user action that ends on another screen.
LeavesUserSelection ==
  /\ UserAction
  /\ ~(app'.isSelectingUser /\ app'.parsedData # <<>>)

C32_SelectionNeverStuck ==
  Screen = "UserSelection" => ENABLED LeavesUserSelection

\* The selection screen is shown for a result with a speaker.
C32_SelectionWithSpeakers ==
  /\ Screen = "UserSelection"
  /\ Len(app.parsedData[1].users) > 0
  /\ ENABLED LeavesUserSelection

====
